---- MODULE Spec2Model ----
(***************************************************************************)
(* Model of contracts/SecretMsg_FHE.sol (contract SecretMessage).           *)
(*                                                                         *)
(* State: the storage of the contract (encryptedMessages, messageIds), the *)
(* emitted event log, the block timestamp, the outcome of the last         *)
(* transaction, and the permissions the contract sets in the FHE access    *)
(* control list (acl).  Every external function is one atomic action: a    *)
(* transaction either commits all its writes or reverts and writes none.   *)
(*                                                                         *)
(* The FHE library (FHE.fromExternal, FHE.isInitialized,                   *)
(* FHE.checkSignatures) is an imported dependency; it is modelled by its   *)
(* contract at the lines where the contract calls it.                      *)
(*                                                                         *)
(* coord is the state of the client-side decrypt flows of                  *)
(* frontend/web/src/App.tsx (decryptMessage), one per coordinator.         *)
(***************************************************************************)
EXTENDS Integers, Sequences, FiniteSets, TLC

VARIABLES encryptedMessages, messageIds, events, now, ret, acl, coord

\* the ledger: the contract's state and the outcome of its last transaction
ledger == <<encryptedMessages, messageIds, events, now, ret, acl>>

vars == <<encryptedMessages, messageIds, events, now, ret, acl, coord>>

---------------------------------------------------------------------------
(* Bounds of the model *)

\* most successful sendMessage calls in a run (caps the length of messageIds)
MaxSends == 2
\* largest block.timestamp reached
MaxTime == 2

---------------------------------------------------------------------------
(* Input domains *)

MsgIds == {"m1", "m2"}
Callers == {"alice"}
\* condition strings passed to sendMessage; "" is the empty string
Conditions == {"", "c"}
\* non-zero ciphertext handles (bytes32) the coprocessor has produced
Handles == {1, 2}
\* the zero handle: the value of an uninitialized euint32
NoHandle == 0
\* expirationTime arguments passed to sendMessage
ExpTimes == {1}
\* address(0), the sender of a storage slot never written or deleted
ZeroAddress == "0x0"

\* the uint32 plaintext the coprocessor holds behind each handle
Plain(h) == IF h = 1 THEN 42 ELSE 7

---------------------------------------------------------------------------
(* abi.encode / abi.decode of one uint32: a 32-byte big-endian word *)

\* abi.encode(uint32(v)): 28 zero bytes, then the 4 bytes of v, big-endian
AbiEncodeUint32(v) ==
    [i \in 1..32 |->
        IF i <= 28 THEN 0
        ELSE IF i = 29 THEN (v \div 16777216) % 256
        ELSE IF i = 30 THEN (v \div 65536) % 256
        ELSE IF i = 31 THEN (v \div 256) % 256
        ELSE v % 256]

\* abi.decode(b, (uint32)) reverts unless b holds a full word whose value
\* fits 32 bits (the 28 leading bytes are zero)
AbiDecodable(b) ==
    /\ Len(b) >= 32
    /\ \A i \in 1..28 : b[i] = 0

AbiDecodeUint32(b) ==
    b[29] * 16777216 + b[30] * 65536 + b[31] * 256 + b[32]

\* a word whose value is 2^32 + 7: not a uint32
OverflowWord == [i \in 1..32 |-> IF i = 28 THEN 1 ELSE IF i = 32 THEN 7 ELSE 0]

\* abiEncodedClearValue arguments passed to decryptMessage
ClearBytes ==
    {AbiEncodeUint32(Plain(h)) : h \in Handles} \cup {OverflowWord}

---------------------------------------------------------------------------
(* The FHE library, as the contract uses it *)

\* inputProof arguments: the coprocessor's attestation that a handle is a
\* well-formed ciphertext; signed = FALSE is a forged or corrupted proof
EmptyProof == [handle |-> NoHandle, signed |-> FALSE]
InputProofs == [handle : Handles, signed : {TRUE}] \cup {EmptyProof}

\* (encryptedContent, inputProof) argument pairs passed to sendMessage: each
\* handle with its own attestation, a handle with the attestation of
\* another handle, and the zero handle with no proof
CipherInputs ==
    {<<h, [handle |-> h, signed |-> TRUE]>> : h \in Handles}
        \cup {<<1, [handle |-> 2, signed |-> TRUE]>>, <<NoHandle, EmptyProof>>}

\* FHE.fromExternal(encryptedContent, inputProof) reverts unless the proof
\* attests the external handle; the zero handle with no proof passes through
FromExternalReverts(encryptedContent, inputProof) ==
    IF inputProof = EmptyProof
    THEN encryptedContent # NoHandle
    ELSE ~(inputProof.signed /\ inputProof.handle = encryptedContent)

FromExternal(encryptedContent, inputProof) == encryptedContent

\* FHE.isInitialized(v): the handle is not zero
IsInitialized(handle) == handle # NoHandle

\* decryptionProof arguments: the oracle's signatures over (handles,
\* abi-encoded clear values).  The oracle signs only the true decryption of
\* a handle; signed = FALSE is a forged or corrupted signature set.
DecryptionProofs ==
    {p \in [cts : {<<h>> : h \in Handles}, clear : ClearBytes, signed : BOOLEAN] :
        p.clear = AbiEncodeUint32(Plain(p.cts[1]))}

DecryptInputs ==
    {<<p.clear, p>> : p \in DecryptionProofs}
        \cup {<<OverflowWord, p>> : p \in {q \in DecryptionProofs : q.signed}}

\* FHE.checkSignatures(cts, abiEncodedClearValue, decryptionProof) passes
\* iff the signatures are the oracle's and cover exactly (cts, clear value)
CheckSignatures(cts, abiEncodedClearValue, decryptionProof) ==
    /\ decryptionProof.signed
    /\ decryptionProof.cts = cts
    /\ decryptionProof.clear = abiEncodedClearValue

---------------------------------------------------------------------------
(* Storage *)

\* the value of a mapping slot never written, and of a deleted one
ZeroMessage ==
    [encryptedContent |-> NoHandle,
     expirationTime |-> 0,
     isBurnAfterReading |-> FALSE,
     isDecrypted |-> FALSE,
     sender |-> ZeroAddress,
     timestamp |-> 0,
     condition |-> "",
     decryptedContent |-> 0]

\* bytes(s).length == 0
EmptyString(s) == s = ""

\* bytes(encryptedMessages[messageId].condition).length > 0
Exists(messageId) == ~EmptyString(encryptedMessages[messageId].condition)

Range(s) == {s[i] : i \in 1..Len(s)}

MessageSent(messageId, sender) ==
    [name |-> "MessageSent", messageId |-> messageId, sender |-> sender,
     decryptedContent |-> 0]
MessageDecrypted(messageId, decryptedContent) ==
    [name |-> "MessageDecrypted", messageId |-> messageId, sender |-> ZeroAddress,
     decryptedContent |-> decryptedContent]
MessageBurned(messageId) ==
    [name |-> "MessageBurned", messageId |-> messageId, sender |-> ZeroAddress,
     decryptedContent |-> 0]

\* a reverted transaction writes nothing; ret records the failure
Revert(err) ==
    /\ ret' = err
    /\ UNCHANGED <<encryptedMessages, messageIds, events, now, acl>>

Return(op) == ret' = op

---------------------------------------------------------------------------
(* Views *)

NotFound == [err |-> "NotFound"]

getMessage(messageId) ==
    IF ~Exists(messageId) THEN NotFound
    ELSE LET message == encryptedMessages[messageId] IN
         [err |-> "ok",
          expirationTime |-> message.expirationTime,
          isBurnAfterReading |-> message.isBurnAfterReading,
          isDecrypted |-> message.isDecrypted,
          sender |-> message.sender,
          timestamp |-> message.timestamp,
          condition |-> message.condition,
          decryptedContent |-> message.decryptedContent]

\* getAllMessageIds leaving out the ids whose record was deleted
getAllMessageIds_OmitsBurned == SelectSeq(messageIds, Exists)

getAllMessageIds == messageIds

getEncryptedContent(messageId) ==
    IF ~Exists(messageId) THEN NotFound
    ELSE [err |-> "ok", encryptedContent |-> encryptedMessages[messageId].encryptedContent]

---------------------------------------------------------------------------
(* The client decrypt coordinator: data *)

Coordinators == {"c1", "c2"}

\* the revert reason of each failure, as the words of the require string
\* (FHE.checkSignatures and abi.decode revert without a reason string)
RevertReason(err) ==
    IF err = "NotFound" THEN <<"Message", "does", "not", "exist">>
    ELSE IF err = "AlreadyDecrypted" THEN <<"Message", "already", "decrypted">>
    ELSE IF err = "Expired" THEN <<"Message", "expired">>
    ELSE <<>>

\* e.message of the exception the client library throws for a reverted call
ErrorMessage(err) == <<"execution", "reverted:">> \o RevertReason(err)

\* String.prototype.includes, on strings given as their words
Includes(message, pattern) ==
    \E i \in 1..(Len(message) - Len(pattern) + 1) :
        SubSeq(message, i, i + Len(pattern) - 1) = pattern

\* e.message?.includes("Data already verified")
IsAlreadyVerifiedError(err) ==
    Includes(ErrorMessage(err), <<"Data", "already", "verified">>)

\* Number(x) || 0
NumberOrZero(x) == IF x = 0 THEN 0 ELSE x

\* a flow that has not started: no call of the coordinator is in progress.
\* result is the returned value: <<>> is null, <<v>> the number v
IdleFlow ==
    [pc |-> "idle", businessId |-> "", handle |-> NoHandle,
     requested |-> FALSE, submitted |-> FALSE,
     failedAt |-> "", caught |-> "", status |-> "none", result |-> <<>>]

---------------------------------------------------------------------------
(* Transactions *)

Init ==
    /\ encryptedMessages = [id \in MsgIds |-> ZeroMessage]
    /\ messageIds = <<>>
    /\ events = <<>>
    /\ now = 1
    /\ ret = "constructor"
    /\ acl = [allowedThis |-> {}, publiclyDecryptable |-> {}]
    /\ coord = [c \in Coordinators |-> IdleFlow]

\* the outcome of the checks of sendMessage, in the order the code makes
\* them: the first failing require (or reverting library call), else "ok"
sendError(messageId, encryptedContent, inputProof) ==
    IF ~(EmptyString(encryptedMessages[messageId].condition))
    THEN "DuplicateId"
    ELSE IF \/ FromExternalReverts(encryptedContent, inputProof)
            \/ ~IsInitialized(FromExternal(encryptedContent, inputProof))
    THEN "MalformedCiphertext"
    ELSE "ok"

\* newMessage with expirationTime and timestamp swapped
newMessage_SwapTimes(handle, expirationTime, isBurnAfterReading, condition, sender) ==
    [encryptedContent |-> handle,
     expirationTime |-> now,
     isBurnAfterReading |-> isBurnAfterReading,
     isDecrypted |-> FALSE,
     sender |-> sender,
     timestamp |-> expirationTime,
     condition |-> condition,
     decryptedContent |-> 0]

\* the struct sendMessage stores
newMessage(handle, expirationTime, isBurnAfterReading, condition, sender) ==
    [encryptedContent |-> handle,
     expirationTime |-> expirationTime,
     isBurnAfterReading |-> isBurnAfterReading,
     isDecrypted |-> FALSE,
     sender |-> sender,
     timestamp |-> now,
     condition |-> condition,
     decryptedContent |-> 0]

\* FHE.allowThis(handle); FHE.makePubliclyDecryptable(handle)
allowHandle(handle) ==
    [allowedThis |-> acl.allowedThis \cup {handle},
     publiclyDecryptable |-> acl.publiclyDecryptable \cup {handle}]

sendMessage(messageId, encryptedContent, inputProof, expirationTime, isBurnAfterReading, condition, sender) ==
    LET err == sendError(messageId, encryptedContent, inputProof) IN
    IF err # "ok"
    THEN Revert(err)
    ELSE /\ Len(messageIds) < MaxSends
         /\ encryptedMessages' =
              [encryptedMessages EXCEPT ![messageId] =
                 newMessage(FromExternal(encryptedContent, inputProof),
                            expirationTime, isBurnAfterReading, condition, sender)]
         /\ acl' = allowHandle(encryptedMessages'[messageId].encryptedContent)
         /\ messageIds' = Append(messageIds, messageId)
         /\ events' = Append(events, MessageSent(messageId, sender))
         /\ Return("sendMessage")
         /\ UNCHANGED now

\* decryptError that also refuses a record whose condition is not "c"
decryptError_ConditionGate(messageId, abiEncodedClearValue, decryptionProof) ==
    LET message == encryptedMessages[messageId] IN
    IF ~(~EmptyString(message.condition)) THEN "NotFound"
    ELSE IF ~(~message.isDecrypted) THEN "AlreadyDecrypted"
    ELSE IF ~(now <= message.expirationTime) THEN "Expired"
    ELSE IF message.condition # "c" THEN "ConditionNotMet"
    ELSE IF ~CheckSignatures(<<message.encryptedContent>>, abiEncodedClearValue, decryptionProof)
    THEN "InvalidProof"
    ELSE IF ~AbiDecodable(abiEncodedClearValue) THEN "DecodeError"
    ELSE "ok"

\* decryptError without the call of FHE.checkSignatures
decryptError_NoCheckSignatures(messageId, abiEncodedClearValue, decryptionProof) ==
    LET message == encryptedMessages[messageId] IN
    IF ~(~EmptyString(message.condition)) THEN "NotFound"
    ELSE IF ~(~message.isDecrypted) THEN "AlreadyDecrypted"
    ELSE IF ~(now <= message.expirationTime) THEN "Expired"
    ELSE IF ~AbiDecodable(abiEncodedClearValue) THEN "DecodeError"
    ELSE "ok"

\* decryptError verifying against the handles the proof names instead of the
\* stored handle
decryptError_ProofHandle(messageId, abiEncodedClearValue, decryptionProof) ==
    LET message == encryptedMessages[messageId]
        cts == decryptionProof.cts
    IN
    IF ~(~EmptyString(message.condition)) THEN "NotFound"
    ELSE IF ~(~message.isDecrypted) THEN "AlreadyDecrypted"
    ELSE IF ~(now <= message.expirationTime) THEN "Expired"
    ELSE IF ~CheckSignatures(cts, abiEncodedClearValue, decryptionProof)
    THEN "InvalidProof"
    ELSE IF ~AbiDecodable(abiEncodedClearValue) THEN "DecodeError"
    ELSE "ok"

\* decryptError without the isDecrypted check
decryptError_NoDecryptedCheck(messageId, abiEncodedClearValue, decryptionProof) ==
    LET message == encryptedMessages[messageId]
        cts == <<message.encryptedContent>>
    IN
    IF ~(~EmptyString(message.condition)) THEN "NotFound"
    ELSE IF ~(now <= message.expirationTime) THEN "Expired"
    ELSE IF ~CheckSignatures(cts, abiEncodedClearValue, decryptionProof)
    THEN "InvalidProof"
    ELSE IF ~AbiDecodable(abiEncodedClearValue) THEN "DecodeError"
    ELSE "ok"

\* decryptError comparing block.timestamp < expirationTime
decryptError_StrictExpiry(messageId, abiEncodedClearValue, decryptionProof) ==
    LET message == encryptedMessages[messageId]
        cts == <<message.encryptedContent>>
    IN
    IF ~(~EmptyString(message.condition)) THEN "NotFound"
    ELSE IF ~(~message.isDecrypted) THEN "AlreadyDecrypted"
    ELSE IF ~(now < message.expirationTime) THEN "Expired"
    ELSE IF ~CheckSignatures(cts, abiEncodedClearValue, decryptionProof)
    THEN "InvalidProof"
    ELSE IF ~AbiDecodable(abiEncodedClearValue) THEN "DecodeError"
    ELSE "ok"

\* decryptError with the expiration check ahead of the isDecrypted check
decryptError_ExpiryFirst(messageId, abiEncodedClearValue, decryptionProof) ==
    LET message == encryptedMessages[messageId]
        cts == <<message.encryptedContent>>
    IN
    IF ~(~EmptyString(message.condition)) THEN "NotFound"
    ELSE IF ~(now <= message.expirationTime) THEN "Expired"
    ELSE IF ~(~message.isDecrypted) THEN "AlreadyDecrypted"
    ELSE IF ~CheckSignatures(cts, abiEncodedClearValue, decryptionProof)
    THEN "InvalidProof"
    ELSE IF ~AbiDecodable(abiEncodedClearValue) THEN "DecodeError"
    ELSE "ok"

\* decryptError without the expiration check
decryptError_NoExpiryCheck(messageId, abiEncodedClearValue, decryptionProof) ==
    LET message == encryptedMessages[messageId]
        cts == <<message.encryptedContent>>
    IN
    IF ~(~EmptyString(message.condition)) THEN "NotFound"
    ELSE IF ~(~message.isDecrypted) THEN "AlreadyDecrypted"
    ELSE IF ~CheckSignatures(cts, abiEncodedClearValue, decryptionProof)
    THEN "InvalidProof"
    ELSE IF ~AbiDecodable(abiEncodedClearValue) THEN "DecodeError"
    ELSE "ok"

\* the outcome of the checks of decryptMessage, in the order the code makes
\* them: the first failing require (or reverting library call), else "ok"
decryptError(messageId, abiEncodedClearValue, decryptionProof) ==
    LET message == encryptedMessages[messageId]
        cts == <<message.encryptedContent>>
    IN
    IF ~(~EmptyString(message.condition))
    THEN "NotFound"
    ELSE IF ~(~message.isDecrypted)
    THEN "AlreadyDecrypted"
    ELSE IF ~(now <= message.expirationTime)
    THEN "Expired"
    ELSE IF ~CheckSignatures(cts, abiEncodedClearValue, decryptionProof)
    THEN "InvalidProof"
    ELSE IF ~AbiDecodable(abiEncodedClearValue)
    THEN "DecodeError"
    ELSE "ok"

\* decryptedRecord whose burn path clears only the condition, the
\* existence sentinel, instead of deleting the record
decryptedRecord_ClearsConditionOnly(message, decodedValue) ==
    LET written == [message EXCEPT !.decryptedContent = decodedValue,
                                   !.isDecrypted = TRUE]
    IN IF written.isBurnAfterReading
       THEN [written EXCEPT !.condition = ""]
       ELSE written

\* decryptedRecord deleting the record whatever its burn flag
decryptedRecord_AlwaysBurns(message, decodedValue) == ZeroMessage

\* decryptedRecord writing the value without setting isDecrypted
decryptedRecord_NoFlag(message, decodedValue) ==
    LET written == [message EXCEPT !.decryptedContent = decodedValue]
    IN IF written.isBurnAfterReading THEN ZeroMessage ELSE written

\* decryptedRecord without the delete of the burn path
decryptedRecord_NeverBurns(message, decodedValue) ==
    [message EXCEPT !.decryptedContent = decodedValue, !.isDecrypted = TRUE]

\* the record left in storage once the checks have passed: the two fields
\* are written, then a burn-after-reading record is deleted
decryptedRecord(message, decodedValue) ==
    LET written == [message EXCEPT !.decryptedContent = decodedValue,
                                   !.isDecrypted = TRUE]
    IN IF written.isBurnAfterReading THEN ZeroMessage ELSE written

\* decryptedEvent emitting MessageDecrypted without the decoded value
decryptedEvent_NoValue(messageId, message, decodedValue) ==
    IF message.isBurnAfterReading
    THEN MessageBurned(messageId)
    ELSE MessageDecrypted(messageId, 0)

\* the event the successful decryptMessage emits
decryptedEvent(messageId, message, decodedValue) ==
    IF message.isBurnAfterReading
    THEN MessageBurned(messageId)
    ELSE MessageDecrypted(messageId, decodedValue)

\* decryptMessage that marks the record decrypted before the checks and
\* reports a failed proof without undoing the write
decryptMessage_WritesBeforeChecks(messageId, abiEncodedClearValue, decryptionProof) ==
    LET err == decryptError(messageId, abiEncodedClearValue, decryptionProof)
        message == encryptedMessages[messageId]
    IN
    IF err = "InvalidProof"
    THEN /\ encryptedMessages' =
              [encryptedMessages EXCEPT ![messageId] =
                 [message EXCEPT !.isDecrypted = TRUE]]
         /\ ret' = err
         /\ UNCHANGED <<messageIds, events, now, acl>>
    ELSE IF err # "ok"
    THEN Revert(err)
    ELSE LET decodedValue == AbiDecodeUint32(abiEncodedClearValue) IN
         /\ encryptedMessages' =
              [encryptedMessages EXCEPT
                 ![messageId] = decryptedRecord(message, decodedValue)]
         /\ events' = Append(events, decryptedEvent(messageId, message, decodedValue))
         /\ Return("decryptMessage")
         /\ UNCHANGED <<messageIds, now, acl>>

\* decryptMessage whose burn path emits MessageDecrypted as well
decryptMessage_BurnEmitsBoth(messageId, abiEncodedClearValue, decryptionProof) ==
    LET err == decryptError(messageId, abiEncodedClearValue, decryptionProof)
        message == encryptedMessages[messageId]
    IN
    IF err # "ok"
    THEN Revert(err)
    ELSE LET decodedValue == AbiDecodeUint32(abiEncodedClearValue) IN
         /\ encryptedMessages' =
              [encryptedMessages EXCEPT
                 ![messageId] = decryptedRecord(message, decodedValue)]
         /\ events' =
              IF message.isBurnAfterReading
              THEN events \o <<MessageDecrypted(messageId, decodedValue),
                               MessageBurned(messageId)>>
              ELSE Append(events, MessageDecrypted(messageId, decodedValue))
         /\ Return("decryptMessage")
         /\ UNCHANGED <<messageIds, now, acl>>

decryptMessage(messageId, abiEncodedClearValue, decryptionProof) ==
    LET err == decryptError(messageId, abiEncodedClearValue, decryptionProof)
        message == encryptedMessages[messageId]
    IN
    IF err # "ok"
    THEN Revert(err)
    ELSE LET decodedValue == AbiDecodeUint32(abiEncodedClearValue) IN
         /\ encryptedMessages' =
              [encryptedMessages EXCEPT
                 ![messageId] = decryptedRecord(message, decodedValue)]
         /\ events' = Append(events, decryptedEvent(messageId, message, decodedValue))
         /\ Return("decryptMessage")
         /\ UNCHANGED <<messageIds, now, acl>>

\* a later block: block.timestamp grows
Tick ==
    /\ now < MaxTime
    /\ now' = now + 1
    /\ UNCHANGED <<encryptedMessages, messageIds, events, ret, acl, coord>>

Next ==
    \/ /\ \E messageId \in MsgIds, input \in CipherInputs,
             expirationTime \in ExpTimes, isBurnAfterReading \in BOOLEAN,
             condition \in Conditions, sender \in Callers :
            sendMessage(messageId, input[1], input[2], expirationTime,
                        isBurnAfterReading, condition, sender)
       /\ UNCHANGED coord
    \/ /\ \E messageId \in MsgIds, input \in DecryptInputs :
            decryptMessage(messageId, input[1], input[2])
       /\ UNCHANGED coord
    \/ Tick

Spec == Init /\ [][Next]_vars

---------------------------------------------------------------------------
(* Decryption by any party *)

\* the accounts that send decryptMessage transactions
DecryptCallers == {"alice", "bob"}

\* condition texts of existing records
ConditionTexts == {"c", "d"}

\* the ciphertext of the records: one well-formed input, sent under each id
TwinInputs ==
    {input \in CipherInputs :
        input[1] = 1 /\ ~FromExternalReverts(input[1], input[2])}

\* decryptMessage as a transaction of msg.sender = sender: the function
\* never reads msg.sender
decryptMessageFrom(sender, messageId, abiEncodedClearValue, decryptionProof) ==
    decryptMessage(messageId, abiEncodedClearValue, decryptionProof)

NextAnyone ==
    \/ /\ \E messageId \in MsgIds, input \in TwinInputs,
             expirationTime \in ExpTimes, isBurnAfterReading \in BOOLEAN,
             condition \in ConditionTexts, sender \in Callers :
            /\ sendMessage(messageId, input[1], input[2], expirationTime,
                           isBurnAfterReading, condition, sender)
       /\ UNCHANGED coord
    \/ /\ \E sender \in DecryptCallers, messageId \in MsgIds, input \in DecryptInputs :
            decryptMessageFrom(sender, messageId, input[1], input[2])
       /\ UNCHANGED coord
    \/ Tick

SpecAnyone == Init /\ [][NextAnyone]_vars

---------------------------------------------------------------------------
(* The client decrypt coordinator: steps *)

\* contractRead.getBusinessData(businessId): the read operation of the ledger
getBusinessData(businessId) == getMessage(businessId)

\* the isVerified and decryptedValue fields of the record read
isVerified(businessData) == businessData.isDecrypted
decryptedValue(businessData) == businessData.decryptedContent

\* contractRead.getEncryptedValue(businessId): the handle getter of the ledger
getEncryptedValue(businessId) == getEncryptedContent(businessId)

\* the decryption oracle: for a publicly decryptable handle, the clear value
\* and the signatures over (handle, clear value)
requestDecryption(handle) ==
    [clear |-> AbiEncodeUint32(Plain(handle)),
     proof |-> [cts |-> <<handle>>, clear |-> AbiEncodeUint32(Plain(handle)),
                signed |-> TRUE]]

\* the catch block: the flow ends, with a success status if the message
\* names an already verified record, with an error status otherwise; both
\* return null
catchError(flow, at, err) ==
    [flow EXCEPT !.pc = "done",
                 !.failedAt = at,
                 !.caught = err,
                 !.status = IF IsAlreadyVerifiedError(err) THEN "success" ELSE "error",
                 !.result = <<>>]

\* coordRead that never takes the short cut of an already decrypted record
coordRead_NoShortCut(c, businessId, isConnected) ==
    /\ coord[c].pc \in {"idle", "done"}
    /\ UNCHANGED ledger
    /\ LET flow == [IdleFlow EXCEPT !.businessId = businessId]
           businessData == getBusinessData(businessId)
       IN
       IF ~isConnected
       THEN coord' = [coord EXCEPT ![c] =
                        [flow EXCEPT !.pc = "done", !.status = "error"]]
       ELSE IF businessData = NotFound
       THEN coord' = [coord EXCEPT ![c] = catchError(flow, "read", "NotFound")]
       ELSE coord' = [coord EXCEPT ![c] =
                        [flow EXCEPT !.pc = "handle"]]

\* a call of the coordinator up to its first read: without a wallet it ends
\* in an error; else it reads the record and, if the record is already
\* decrypted, returns the stored value
coordRead(c, businessId, isConnected) ==
    /\ coord[c].pc \in {"idle", "done"}
    /\ UNCHANGED ledger
    /\ LET flow == [IdleFlow EXCEPT !.businessId = businessId]
           businessData == getBusinessData(businessId)
       IN
       IF ~isConnected
       THEN coord' = [coord EXCEPT ![c] =
                        [flow EXCEPT !.pc = "done", !.status = "error"]]
       ELSE IF businessData = NotFound
       THEN coord' = [coord EXCEPT ![c] = catchError(flow, "read", "NotFound")]
       ELSE IF isVerified(businessData)
       THEN coord' = [coord EXCEPT ![c] =
                        [flow EXCEPT !.pc = "done",
                                     !.status = "success",
                                     !.result = <<NumberOrZero(decryptedValue(businessData))>>]]
       ELSE coord' = [coord EXCEPT ![c] =
                        [flow EXCEPT !.pc = "handle"]]

\* coordGetHandle that sends a decryptMessage transaction ahead of the oracle
coordGetHandle_Submits(c) ==
    /\ coord[c].pc = "handle"
    /\ \E input \in DecryptInputs :
          decryptMessage(coord[c].businessId, input[1], input[2])
    /\ coord' = [coord EXCEPT ![c].pc = "oracle"]

\* the read of the ciphertext handle
coordGetHandle(c) ==
    /\ coord[c].pc = "handle"
    /\ UNCHANGED ledger
    /\ LET got == getEncryptedValue(coord[c].businessId) IN
       IF got = NotFound
       THEN coord' = [coord EXCEPT ![c] = catchError(coord[c], "handle", "NotFound")]
       ELSE coord' = [coord EXCEPT ![c].pc = "oracle",
                                   ![c].handle = got.encryptedContent]

\* the oracle round trip of verifyDecryption: it answers, or it is unavailable
coordOracle(c, available) ==
    /\ coord[c].pc = "oracle"
    /\ UNCHANGED ledger
    /\ IF available /\ coord[c].handle \in acl.publiclyDecryptable
       THEN coord' = [coord EXCEPT ![c].pc = "submit", ![c].requested = TRUE]
       ELSE coord' = [coord EXCEPT ![c] =
                        catchError([coord[c] EXCEPT !.requested = TRUE],
                                   "oracle", "OracleUnavailable")]

\* the submission: one decryptMessage transaction with the oracle's answer;
\* on success the flow returns the clear value (the reload of the message
\* list that precedes the return only reads), on a revert the catch block
\* runs
coordSubmit(c) ==
    /\ coord[c].pc = "submit"
    /\ LET answer == requestDecryption(coord[c].handle)
           flow == [coord[c] EXCEPT !.submitted = TRUE]
       IN
       /\ decryptMessage(coord[c].businessId, answer.clear, answer.proof)
       /\ IF ret' = "decryptMessage"
          THEN coord' = [coord EXCEPT ![c] =
                           [flow EXCEPT !.pc = "done",
                                        !.status = "success",
                                        !.result = <<AbiDecodeUint32(answer.clear)>>]]
          ELSE coord' = [coord EXCEPT ![c] = catchError(flow, "submit", ret')]

\* the messages the coordinators work on: well-formed ciphertexts, sent
\* under one id
CoordIds == {"m1"}
CoordInputs ==
    {input \in CipherInputs :
        /\ ~FromExternalReverts(input[1], input[2])
        /\ IsInitialized(FromExternal(input[1], input[2]))}

NextCoord ==
    \/ /\ \E messageId \in CoordIds, input \in CoordInputs,
             expirationTime \in ExpTimes, isBurnAfterReading \in BOOLEAN,
             condition \in Conditions, sender \in Callers :
            sendMessage(messageId, input[1], input[2], expirationTime,
                        isBurnAfterReading, condition, sender)
       /\ UNCHANGED coord
    \/ Tick
    \/ \E c \in Coordinators, businessId \in CoordIds, isConnected \in BOOLEAN :
          coordRead(c, businessId, isConnected)
    \/ \E c \in Coordinators : coordGetHandle(c)
    \/ \E c \in Coordinators, available \in BOOLEAN : coordOracle(c, available)
    \/ \E c \in Coordinators : coordSubmit(c)

SpecCoord == Init /\ [][NextCoord]_vars

---------------------------------------------------------------------------
(* Properties *)

\* what the oracle attests: proof p is a genuine signature set for handle h
\* and the clear bytes c
Attests(p, h, c) == p.signed /\ p.cts = <<h>> /\ p.clear = c

Active(id) == Exists(id) /\ ~encryptedMessages[id].isDecrypted

LastEvent == events[Len(events)]

\* the last transaction was a successful burn-after-reading decryption of id
JustBurned(id) ==
    /\ ret = "decryptMessage"
    /\ Len(events) > 0
    /\ LastEvent = MessageBurned(id)

\* C1: every stored record with isDecrypted = TRUE has a decryptedContent
\* that is the value decoded from clear bytes which the oracle attested for
\* that record's own stored handle.
C1_ClearValueVerified ==
    \A id \in MsgIds :
        encryptedMessages[id].isDecrypted =>
            \E input \in DecryptInputs :
                /\ Attests(input[2], encryptedMessages[id].encryptedContent, input[1])
                /\ AbiDecodable(input[1])
                /\ AbiDecodeUint32(input[1]) = encryptedMessages[id].decryptedContent

C1_Witness ==
    \E id \in MsgIds :
        /\ encryptedMessages[id].isDecrypted
        /\ encryptedMessages[id].decryptedContent = Plain(encryptedMessages[id].encryptedContent)
        /\ ret = "decryptMessage"

\* C2: a decryptMessage call succeeds only with a proof attested for the
\* handle stored under the id; on an existing, undecrypted, unexpired record
\* a pair (value, proof) attested for another handle fails with InvalidProof
\* and writes nothing.
C2_ProofBinding ==
    [][\A id \in MsgIds, input \in DecryptInputs :
          decryptMessage(id, input[1], input[2]) =>
             LET h == encryptedMessages[id].encryptedContent IN
             /\ ret' = "decryptMessage" => Attests(input[2], h, input[1])
             /\ ( /\ Active(id)
                  /\ now <= encryptedMessages[id].expirationTime
                  /\ \E g \in Handles \ {h} : Attests(input[2], g, input[1]) )
                => /\ ret' = "InvalidProof"
                   /\ UNCHANGED <<encryptedMessages, messageIds, events>>
      ]_vars

C2_Witness ==
    \E id \in MsgIds :
        /\ Active(id)
        /\ now <= encryptedMessages[id].expirationTime
        /\ ret = "InvalidProof"
        /\ \E input \in DecryptInputs, g \in Handles :
              /\ g # encryptedMessages[id].encryptedContent
              /\ Attests(input[2], g, input[1])

\* C3: once a record is decrypted (it is stored, so it is not a
\* burn-after-reading record), no step changes any of its fields, in
\* particular isDecrypted stays TRUE and decryptedContent keeps its value,
\* and every decryptMessage on its id fails with AlreadyDecrypted.
C3_DecryptOnce ==
    [][\A id \in MsgIds :
          encryptedMessages[id].isDecrypted =>
             /\ ~encryptedMessages[id].isBurnAfterReading
             /\ encryptedMessages'[id] = encryptedMessages[id]
             /\ \A input \in DecryptInputs :
                   decryptMessage(id, input[1], input[2]) => ret' = "AlreadyDecrypted"
      ]_vars

C3_Witness ==
    \E id \in MsgIds :
        /\ encryptedMessages[id].isDecrypted
        /\ ~encryptedMessages[id].isBurnAfterReading
        /\ ret = "AlreadyDecrypted"

\* whether MessageBurned(id) was ever emitted
WasBurned(id) == \E i \in 1..Len(events) : events[i] = MessageBurned(id)

\* C4: once a burn-after-reading record was decrypted, its id stays
\* nonexistent for ever: no later sendMessage brings it back.
C4_BurnedIsTerminal ==
    \A id \in MsgIds : WasBurned(id) => ~Exists(id)

\* C5: a sendMessage for an id for which an earlier sendMessage succeeded
\* fails with DuplicateId and leaves the stored records as they were
\* (stated for second calls that carry a well-formed ciphertext, where
\* DuplicateId is the only way the call can fail).
C5_Uniqueness ==
    [][\A id \in MsgIds, input \in CipherInputs, expirationTime \in ExpTimes,
          isBurnAfterReading \in BOOLEAN, condition \in Conditions,
          sender \in Callers :
          ( /\ id \in Range(messageIds)
            /\ ~FromExternalReverts(input[1], input[2])
            /\ IsInitialized(FromExternal(input[1], input[2]))
            /\ sendMessage(id, input[1], input[2], expirationTime,
                           isBurnAfterReading, condition, sender) )
          => /\ ret' = "DuplicateId"
             /\ encryptedMessages' = encryptedMessages
      ]_vars

\* the fields sendMessage binds to an id
CreationFields(message) ==
    [encryptedContent |-> message.encryptedContent,
     expirationTime |-> message.expirationTime,
     isBurnAfterReading |-> message.isBurnAfterReading,
     sender |-> message.sender,
     timestamp |-> message.timestamp,
     condition |-> message.condition]

\* C6: the creation-time fields of a record are immutable: a record that is
\* stored under an id before and after a step has the same handle,
\* expirationTime, isBurnAfterReading, sender, timestamp and condition.
C6_CreationFieldsImmutable ==
    [][\A id \in MsgIds :
          ( /\ encryptedMessages[id] # ZeroMessage
            /\ encryptedMessages'[id] # ZeroMessage )
          => CreationFields(encryptedMessages'[id]) = CreationFields(encryptedMessages[id])
      ]_vars

\* C7: on an existing, undecrypted record a decryptMessage at
\* block.timestamp = expirationTime with an attested proof succeeds, and a
\* decryptMessage at block.timestamp > expirationTime fails with Expired
\* whatever the proof.
C7_ExpirationBoundary ==
    [][\A id \in MsgIds, input \in DecryptInputs :
          ( decryptMessage(id, input[1], input[2]) /\ Active(id) ) =>
             LET message == encryptedMessages[id] IN
             /\ ( /\ now = message.expirationTime
                  /\ Attests(input[2], message.encryptedContent, input[1]) )
                => ret' = "decryptMessage"
             /\ now > message.expirationTime => ret' = "Expired"
      ]_vars

C7_Witness ==
    \E id \in MsgIds, other \in MsgIds :
        /\ Active(id)
        /\ now = encryptedMessages[id].expirationTime + 1
        /\ ret = "Expired"
        /\ encryptedMessages[other].isDecrypted
        /\ encryptedMessages[other].expirationTime = 1

\* C8: decryptMessage reports the error of the first failing check in the
\* order existence, already-decrypted, expiration, proof, whichever of the
\* four conditions hold together, and succeeds if none does.
C8_ErrorPriority ==
    [][\A id \in MsgIds, input \in DecryptInputs :
          decryptMessage(id, input[1], input[2]) =>
             LET message == encryptedMessages[id] IN
             ret' = IF ~Exists(id) THEN "NotFound"
                    ELSE IF message.isDecrypted THEN "AlreadyDecrypted"
                    ELSE IF now > message.expirationTime THEN "Expired"
                    ELSE IF ~Attests(input[2], message.encryptedContent, input[1])
                    THEN "InvalidProof"
                    ELSE "decryptMessage"
      ]_vars

C8_Witness ==
    \E id \in MsgIds :
        /\ encryptedMessages[id].isDecrypted
        /\ now > encryptedMessages[id].expirationTime
        /\ ret = "AlreadyDecrypted"

\* C9: right after a successful decryptMessage of a burn-after-reading
\* record, getMessage and getEncryptedContent fail with NotFound and every
\* field of the record's storage slot is zero.
C9_BurnErasure ==
    \A id \in MsgIds :
        JustBurned(id) =>
            /\ getMessage(id) = NotFound
            /\ getEncryptedContent(id) = NotFound
            /\ encryptedMessages[id] = ZeroMessage

C9_Witness ==
    \E id \in MsgIds :
        /\ JustBurned(id)
        /\ getMessage(id) = NotFound
        /\ id \in Range(messageIds)

\* C10: right after a successful decryptMessage of a burn-after-reading
\* record, getAllMessageIds does not contain its id.
C10_BurnedIdNotListed ==
    \A id \in MsgIds :
        JustBurned(id) => id \notin Range(getAllMessageIds)

DecryptFailures == {"NotFound", "AlreadyDecrypted", "Expired", "InvalidProof"}

\* C11: a decryptMessage that fails (NotFound, AlreadyDecrypted, Expired or
\* InvalidProof) leaves the records, the id list and the event log as they
\* were; after Expired the record is still there undecrypted, and after
\* InvalidProof a decryptMessage on the same record with the attested proof
\* for its handle passes every check.
C11_FailedDecryptWritesNothing ==
    [][\A id \in MsgIds, input \in DecryptInputs :
          ( decryptMessage(id, input[1], input[2]) /\ ret' # "decryptMessage" ) =>
             /\ ret' \in DecryptFailures
             /\ UNCHANGED <<encryptedMessages, messageIds, events, now>>
             /\ ret' = "Expired" => (Exists(id) /\ ~encryptedMessages[id].isDecrypted)'
             /\ ret' = "InvalidProof" =>
                   \E retry \in DecryptInputs :
                      /\ Attests(retry[2], encryptedMessages[id].encryptedContent, retry[1])
                      /\ (decryptError(id, retry[1], retry[2]) = "ok")'
      ]_vars

C11_Witness ==
    \E id \in MsgIds :
        /\ Active(id)
        /\ now <= encryptedMessages[id].expirationTime
        /\ ret = "InvalidProof"
        /\ Len(events) = 1

\* C12: a successful decryptMessage(id, enc(v), proof) on a record that is
\* not burn-after-reading sets isDecrypted, stores v, appends exactly
\* MessageDecrypted(id, v) to the event log, changes no other record nor the
\* id list, and getMessage(id) then returns isDecrypted = TRUE and v.
C12_DecryptEffect ==
    [][\A id \in MsgIds, input \in DecryptInputs :
          ( /\ decryptMessage(id, input[1], input[2])
            /\ ret' = "decryptMessage"
            /\ ~encryptedMessages[id].isBurnAfterReading ) =>
             LET v == Plain(encryptedMessages[id].encryptedContent) IN
             /\ input[1] = AbiEncodeUint32(v)
             /\ encryptedMessages' =
                  [encryptedMessages EXCEPT ![id].isDecrypted = TRUE,
                                            ![id].decryptedContent = v]
             /\ events' = Append(events, MessageDecrypted(id, v))
             /\ messageIds' = messageIds
             /\ getMessage(id)'.err = "ok"
             /\ getMessage(id)'.isDecrypted
             /\ getMessage(id)'.decryptedContent = v
      ]_vars

C12_Witness ==
    \E id \in MsgIds, other \in MsgIds :
        /\ ret = "decryptMessage"
        /\ Len(events) > 0
        /\ LastEvent = MessageDecrypted(id, encryptedMessages[id].decryptedContent)
        /\ encryptedMessages[id].isDecrypted
        /\ encryptedMessages[id].decryptedContent = Plain(encryptedMessages[id].encryptedContent)
        /\ other # id
        /\ Exists(other)

\* C13: a successful decryptMessage of a burn-after-reading record discloses
\* the decoded clear value through the event it emits (and only there: the
\* record is deleted).
C13_BurnDisclosesValue ==
    [][\A id \in MsgIds, input \in DecryptInputs :
          ( /\ decryptMessage(id, input[1], input[2])
            /\ ret' = "decryptMessage"
            /\ encryptedMessages[id].isBurnAfterReading ) =>
             /\ Len(events') = Len(events) + 1
             /\ events'[Len(events')].messageId = id
             /\ events'[Len(events')].decryptedContent = AbiDecodeUint32(input[1])
             /\ encryptedMessages'[id] = ZeroMessage
      ]_vars

\* C14: an existing, undecrypted record whose expirationTime has passed is
\* inert: no step changes any of its fields, no decryptMessage on its id
\* succeeds, it stays expired, and getMessage keeps returning it undecrypted.
C14_ExpiredIsInert ==
    [][\A id \in MsgIds :
          ( Active(id) /\ now > encryptedMessages[id].expirationTime ) =>
             /\ encryptedMessages'[id] = encryptedMessages[id]
             /\ now' > encryptedMessages'[id].expirationTime
             /\ getMessage(id)'.err = "ok"
             /\ ~getMessage(id)'.isDecrypted
             /\ \A input \in DecryptInputs :
                   decryptMessage(id, input[1], input[2]) => ret' = "Expired"
      ]_vars

C14_Witness ==
    \E id \in MsgIds :
        /\ Active(id)
        /\ now > encryptedMessages[id].expirationTime
        /\ encryptedMessages[id].timestamp <= encryptedMessages[id].expirationTime
        /\ ret = "Expired"

\* a coordinator whose submission lost the race: its decryptMessage was
\* rejected because another decrypt of the record had already succeeded
LostRace(c) ==
    /\ coord[c].pc = "done"
    /\ coord[c].failedAt = "submit"
    /\ coord[c].caught \in {"AlreadyDecrypted", "NotFound"}

\* C15: when two coordinators race on one record, the coordinator whose
\* submission is rejected with AlreadyDecrypted or NotFound ends on the
\* success path, never in the error state shown to the user.
C15_LoserTakesSuccessPath ==
    \A c \in Coordinators : LostRace(c) => coord[c].status = "success"

\* C16: the coordinator that lost the race returns a clear value to its
\* caller; if the record is still stored, the value stored in it, which is
\* the value the winner returned.
C16_LoserReturnsStoredValue ==
    \A c \in Coordinators :
        LostRace(c) =>
            /\ coord[c].result # <<>>
            /\ coord[c].caught = "AlreadyDecrypted" =>
                  coord[c].result =
                      <<encryptedMessages[coord[c].businessId].decryptedContent>>

\* C17: a coordinator call whose first read finds the record decrypted
\* returns the stored clear value at once, with a success status, without an
\* oracle request and without a submission, and changes nothing in the
\* ledger; a repetition of the call ends in the same way.
C17_ShortCircuit ==
    [][\A c \in Coordinators, id \in MsgIds :
          (/\ coordRead(c, id, TRUE)
           /\ Exists(id)
           /\ encryptedMessages[id].isDecrypted)
          => /\ coord'[c] = [IdleFlow EXCEPT
                                !.pc = "done",
                                !.businessId = id,
                                !.status = "success",
                                !.result = <<encryptedMessages[id].decryptedContent>>]
             /\ ~coord'[c].requested
             /\ ~coord'[c].submitted
             /\ UNCHANGED ledger
      ]_vars

C17_Witness ==
    \E c \in Coordinators :
        /\ coord[c].pc = "done"
        /\ coord[c].status = "success"
        /\ ~coord[c].requested
        /\ ~coord[c].submitted
        /\ coord[c].result = <<encryptedMessages[coord[c].businessId].decryptedContent>>
        /\ coord[c].result # <<0>>

\* C18: a coordinator writes nothing to the ledger before its submission:
\* every step of a flow that has not reached the submission leaves the
\* ledger as it was, so a flow abandoned there has no effect.  The
\* submission is one transaction: it decrypts (or burns) the record and
\* emits its event, or it leaves records, id list and event log unchanged.
C18_NoWriteBeforeSubmission ==
    [][\A c \in Coordinators :
          coord'[c] # coord[c] =>
             IF coord[c].pc # "submit"
             THEN UNCHANGED ledger
             ELSE LET id == coord[c].businessId IN
                  IF ret' = "decryptMessage"
                  THEN /\ encryptedMessages'[id] =
                             decryptedRecord(encryptedMessages[id],
                                             Plain(coord[c].handle))
                       /\ Len(events') = Len(events) + 1
                       /\ coord'[c].status = "success"
                  ELSE UNCHANGED <<encryptedMessages, messageIds, events, acl>>
      ]_vars

C18_Witness ==
    \E c, d \in Coordinators :
        /\ coord[c].pc = "submit"
        /\ coord[c].requested
        /\ Active(coord[c].businessId)
        /\ ~encryptedMessages[coord[c].businessId].isDecrypted
        /\ coord[d].pc = "done"
        /\ coord[d].submitted
        /\ coord[d].status = "success"

\* C19: a sendMessage with an empty condition never succeeds: it writes no
\* record, appends no id and emits no event.
C19_EmptyConditionRejected ==
    [][\A id \in MsgIds, input \in CipherInputs, expirationTime \in ExpTimes,
          isBurnAfterReading \in BOOLEAN, sender \in Callers :
          sendMessage(id, input[1], input[2], expirationTime,
                      isBurnAfterReading, "", sender)
          => /\ ret' # "sendMessage"
             /\ UNCHANGED <<encryptedMessages, messageIds, events>>
      ]_vars

\* C20: a successful sendMessage(id, handle, proof, expirationTime,
\* isBurnAfterReading, condition) by sender s at block.timestamp t stores
\* exactly those fields with sender = s, timestamp = t, isDecrypted = FALSE
\* and decryptedContent = 0, marks the handle publicly decryptable, appends
\* id to messageIds, emits exactly MessageSent(id, s) and leaves every other
\* record unchanged.
C20_CreateEffect ==
    [][\A id \in MsgIds, input \in CipherInputs, expirationTime \in ExpTimes,
          isBurnAfterReading \in BOOLEAN, condition \in Conditions,
          sender \in Callers :
          ( /\ ret' = "sendMessage"
            /\ sendMessage(id, input[1], input[2], expirationTime,
                           isBurnAfterReading, condition, sender) )
          => /\ encryptedMessages' =
                  [encryptedMessages EXCEPT ![id] =
                     [encryptedContent |-> input[1],
                      expirationTime |-> expirationTime,
                      isBurnAfterReading |-> isBurnAfterReading,
                      isDecrypted |-> FALSE,
                      sender |-> sender,
                      timestamp |-> now,
                      condition |-> condition,
                      decryptedContent |-> 0]]
             /\ input[1] \in Handles
             /\ input[1] \in acl'.publiclyDecryptable
             /\ messageIds' = Append(messageIds, id)
             /\ events' = Append(events, MessageSent(id, sender))
      ]_vars

C20_Witness ==
    \E id \in MsgIds, other \in MsgIds :
        /\ ret = "sendMessage"
        /\ Len(messageIds) = 2
        /\ messageIds[2] = id
        /\ other # id
        /\ Exists(other)
        /\ Exists(id)
        /\ encryptedMessages[id].timestamp = 2
        /\ encryptedMessages[id].encryptedContent \in acl.publiclyDecryptable
        /\ LastEvent = MessageSent(id, encryptedMessages[id].sender)

\* the ids of the MessageSent events, in the order of emission: the ids of
\* the successful sendMessage calls in the order they committed
CreatedIds ==
    LET sent == SelectSeq(events, LAMBDA e : e.name = "MessageSent")
    IN [i \in 1..Len(sent) |-> sent[i].messageId]

\* C21: in every reachable state getAllMessageIds returns the ids of the
\* successful sendMessage calls in the order they committed; the getter
\* holds no copy of its own, so every call returns the current list.
C21_ListIsCreationOrder == getAllMessageIds = CreatedIds

C21_Witness ==
    /\ Len(messageIds) = 2
    /\ messageIds = <<"m2", "m1">>
    /\ getAllMessageIds = <<"m2", "m1">>
    /\ WasBurned("m2")

\* C22: a stored record disappears only in a successful decryptMessage of a
\* burn-after-reading record: every other step leaves each existing record
\* in existence (and each written slot written), and a decrypted record
\* that is not burn-after-reading stays as it is for ever.
C22_OnlyBurnDeletes ==
    [][\A id \in MsgIds :
          /\ ( \/ Exists(id) /\ ~Exists(id)'
               \/ encryptedMessages[id] # ZeroMessage
                    /\ encryptedMessages'[id] = ZeroMessage )
             => /\ ret' = "decryptMessage"
                /\ encryptedMessages[id].isBurnAfterReading
                /\ ~encryptedMessages[id].isDecrypted
                /\ events' = Append(events, MessageBurned(id))
          /\ ( Exists(id) /\ encryptedMessages[id].isDecrypted )
             => encryptedMessages'[id] = encryptedMessages[id]
      ]_vars

C22_Witness ==
    \E id, other \in MsgIds :
        /\ JustBurned(id)
        /\ encryptedMessages[id] = ZeroMessage
        /\ Exists(other)
        /\ encryptedMessages[other].isDecrypted
        /\ ~encryptedMessages[other].isBurnAfterReading

\* C23: a record that is not decrypted reads decryptedContent = 0; the
\* field takes a value other than 0 only in a successful decryptMessage,
\* whose proof attests that value for the record's handle, and a decrypted
\* record's value never changes.
C23_NoUnverifiedClearValue ==
    /\ [](\A id \in MsgIds :
            ~encryptedMessages[id].isDecrypted =>
               /\ encryptedMessages[id].decryptedContent = 0
               /\ Exists(id) => getMessage(id).decryptedContent = 0)
    /\ [][\A id \in MsgIds :
            /\ encryptedMessages'[id].decryptedContent # encryptedMessages[id].decryptedContent
               => /\ ret' = "decryptMessage"
                  /\ Active(id)
                  /\ encryptedMessages'[id].isDecrypted
                  /\ encryptedMessages'[id].decryptedContent =
                        Plain(encryptedMessages[id].encryptedContent)
                  /\ events' = Append(events,
                        MessageDecrypted(id, encryptedMessages'[id].decryptedContent))
            /\ encryptedMessages[id].isDecrypted
               => encryptedMessages'[id].decryptedContent = encryptedMessages[id].decryptedContent
         ]_vars

C23_Witness ==
    \E id, other \in MsgIds :
        /\ Exists(id)
        /\ encryptedMessages[id].isDecrypted
        /\ getMessage(id).decryptedContent = Plain(encryptedMessages[id].encryptedContent)
        /\ Active(other)
        /\ getMessage(other).decryptedContent = 0
        /\ ret \in DecryptFailures

\* C24: a successful sendMessage never binds a handle that an earlier
\* successful sendMessage has bound, under the same id or another, before
\* or after a burn (so that no clear value and proof accepted by one
\* decryptMessage can be accepted by a second one).
C24_HandleNeverRebound ==
    [][messageIds' # messageIds =>
          LET id == messageIds'[Len(messageIds')] IN
          encryptedMessages'[id].encryptedContent \notin acl.publiclyDecryptable
      ]_vars

\* two records that differ in nothing but the text of their non-empty
\* conditions
ConditionTwins(id, other) ==
    /\ ~EmptyString(encryptedMessages[id].condition)
    /\ ~EmptyString(encryptedMessages[other].condition)
    /\ [encryptedMessages[id] EXCEPT !.condition = encryptedMessages[other].condition]
          = encryptedMessages[other]

C26_NoDecryptedBurnRecord ==
    \A id \in MsgIds :
        encryptedMessages[id].isBurnAfterReading =>
            /\ ~encryptedMessages[id].isDecrypted
            /\ encryptedMessages[id].decryptedContent = 0

C26_Witness ==
    \E id, other \in MsgIds :
        /\ JustBurned(id)
        /\ ~Exists(id)
        /\ Active(other)
        /\ encryptedMessages[other].isBurnAfterReading

\* the events a step appends to the log
Emitted == SubSeq(events', Len(events) + 1, Len(events'))

\* C27: every MessageDecrypted or MessageBurned in the log comes after a
\* MessageSent of the same id; a successful sendMessage appends exactly one
\* MessageSent, a successful decryptMessage appends exactly one event,
\* MessageBurned if it deleted the record and MessageDecrypted if not, and
\* a failed call and a new block append nothing.
C27_EventOrdering ==
    /\ [](\A i \in 1..Len(events) :
            events[i].name \in {"MessageDecrypted", "MessageBurned"} =>
               \E j \in 1..(i - 1) :
                  /\ events[j].name = "MessageSent"
                  /\ events[j].messageId = events[i].messageId)
    /\ [][/\ Len(events') >= Len(events)
          /\ SubSeq(events', 1, Len(events)) = events
          /\ IF messageIds' # messageIds
             THEN /\ ret' = "sendMessage"
                  /\ Len(Emitted) = 1
                  /\ Emitted[1].name = "MessageSent"
             ELSE IF encryptedMessages' # encryptedMessages
             THEN /\ ret' = "decryptMessage"
                  /\ Len(Emitted) = 1
                  /\ \/ /\ Emitted[1].name = "MessageBurned"
                        /\ encryptedMessages'[Emitted[1].messageId] = ZeroMessage
                     \/ /\ Emitted[1].name = "MessageDecrypted"
                        /\ encryptedMessages'[Emitted[1].messageId].isDecrypted
             ELSE Emitted = <<>>
         ]_vars

C27_Witness ==
    /\ Len(events) = 4
    /\ events[3].name = "MessageDecrypted"
    /\ events[4].name = "MessageBurned"
    /\ ret = "decryptMessage"

====
